---- MODULE Spec2Model ----
(***************************************************************************)
(* A model of the Digi-Museum web application (src/app.py): the users,     *)
(* reviews and wishlist_status tables, the Flask session (logged-in user   *)
(* and the single stored quiz), the external quiz generator, and the       *)
(* number of open database connections, and the request handlers signup,   *)
(* login, logout, dashboard, quiz_selection, museum_profile and quiz.      *)
(*                                                                         *)
(* Conventions.  A Python value that may be None / a dict key that may be  *)
(* absent is a sequence of length 0 or 1: None is <<>>, Some(v) is <<v>>.  *)
(* Usernames and e-mails are sequences of one-character strings so that    *)
(* str.strip() can be computed; every other text is a TLA+ string.         *)
(* A quiz question is a record whose domain is the set of keys the JSON    *)
(* object carries, so q['answer'] on an object without that key is a       *)
(* KeyError.  A submitted quiz form is the sequence of the five values     *)
(* request.form.get('q_0') .. request.form.get('q_4').                     *)
(***************************************************************************)
EXTENDS Integers, Sequences, FiniteSets, TLC

VARIABLES
    users,            \* table users, in rowid order
    reviews,          \* table reviews, in rowid order
    wishlist_status,  \* table wishlist_status, a set of rows
    session,          \* per browser: the Flask session dict
    pending,          \* per worker: the handler it is in the middle of
    now,              \* CURRENT_TIMESTAMP
    last,             \* the response of the handler step taken last
    signed,           \* history: (username, plaintext) of every created account
    toggles,          \* history: the two toggle_wishlist_status calls completed last
    conns             \* the number of database connections that are open

vars == <<users, reviews, wishlist_status, session, pending, now, last, signed,
          toggles, conns>>

None == <<>>
Some(v) == <<v>>

(***************************************************************************)
(* The museum catalog: key -> name and city (the other fields of the       *)
(* entries are display data no handler branches on).                       *)
(***************************************************************************)
MUSEUM_DATA ==
    [national_museum_new_delhi |->
        [name |-> "National Museum", city |-> "New Delhi"],
     indian_museum_kolkata |->
        [name |-> "Indian Museum", city |-> "Kolkata"],
     csmvs_mumbai |->
        [name |-> "Chhatrapati Shivaji Maharaj Vastu Sangrahalaya", city |-> "Mumbai"],
     salar_jung_museum_hyderabad |->
        [name |-> "Salar Jung Museum", city |-> "Hyderabad"],
     bihar_museum_patna |->
        [name |-> "Bihar Museum", city |-> "Patna"],
     albert_hall_museum_jaipur |->
        [name |-> "Albert Hall Museum", city |-> "Jaipur"],
     calico_museum_of_textiles |->
        [name |-> "Calico Museum of Textiles", city |-> "Ahmedabad"],
     national_rail_museum_new_delhi |->
        [name |-> "National Rail Museum", city |-> "New Delhi"],
     government_museum_chennai |->
        [name |-> "Government Museum", city |-> "Chennai"],
     national_gallery_of_modern_art_new_delhi |->
        [name |-> "National Gallery of Modern Art (NGMA)", city |-> "New Delhi"],
     shankar_international_dolls_museum |->
        [name |-> "Shankar's International Dolls Museum", city |-> "New Delhi"],
     virasat_e_khalsa |->
        [name |-> "Virasat-e-Khalsa", city |-> "Anandpur Sahib"],
     napier_museum_thiruvananthapuram |->
        [name |-> "Napier Museum", city |-> "Thiruvananthapuram"],
     govt_museum_art_gallery_chandigarh |->
        [name |-> "Government Museum & Art Gallery", city |-> "Chandigarh"],
     dogra_art_museum_jammu |->
        [name |-> "Dogra Art Museum", city |-> "Jammu"],
     visvesvaraya_industrial_and_technological_museum |->
        [name |-> "Visvesvaraya Industrial and Technological Museum", city |-> "Bengaluru"]]

CatalogKeys == DOMAIN MUSEUM_DATA

\* A lookup with a default: the first entry for a key that is not in the catalog.
MuseumGet_Default(key) ==
    Some(MUSEUM_DATA[IF key \in CatalogKeys THEN key ELSE "national_museum_new_delhi"])

\* MUSEUM_DATA.get(key): None for a key that is not in the catalog.
MuseumGet(key) == IF key \in CatalogKeys THEN Some(MUSEUM_DATA[key]) ELSE None

(***************************************************************************)
(* The external generator.  One call of generate_quiz sees one outcome:    *)
(* genai.Client() raises, generate_content raises, the response text is    *)
(* not JSON, or the text is a JSON object `data`.                          *)
(***************************************************************************)
GenQuestion(n, opts, ans) ==
    [question |-> n, options |-> opts, answer |-> ans]

\* Five questions that honour the prompt: 4 options, the answer among them.
\* Question 1 offers the answer in other case and with trailing blank.
GoodQuestions ==
    << GenQuestion("G1", <<"asia", "Asia", "Asia ", "Africa">>, "Asia"),
       GenQuestion("G2", <<"1814", "1851", "1875", "1922">>, "1814"),
       GenQuestion("G3", <<"Bronze", "Marble", "Wood", "Ivory">>, "Bronze"),
       GenQuestion("G4", <<"Akbar", "Ashoka", "Shah Jahan", "Tipu">>, "Ashoka"),
       GenQuestion("G5", <<"North", "South", "East", "West">>, "East") >>

\* GoodQuestions with question i replaced by q.
WithQuestion(i, q) == [GoodQuestions EXCEPT ![i] = q]

GenData ==
    { \* what the prompt asks for
      [quiz_title |-> "Generated Quiz", questions |-> GoodQuestions],
      \* four questions, six questions, none, and no 'questions' key at all
      [quiz_title |-> "Generated Quiz", questions |-> SubSeq(GoodQuestions, 1, 4)],
      [quiz_title |-> "Generated Quiz", questions |-> GoodQuestions \o <<GoodQuestions[1]>>],
      [quiz_title |-> "Generated Quiz", questions |-> <<>>],
      [quiz_title |-> "Generated Quiz"],
      \* five questions, one of them with three options
      [quiz_title |-> "Generated Quiz",
       questions |-> WithQuestion(2, GenQuestion("G2", <<"1814", "1851", "1875">>, "1814"))],
      \* five questions, one of them with an answer that is none of its options
      [quiz_title |-> "Generated Quiz",
       questions |-> WithQuestion(3, GenQuestion("G3", <<"Bronze", "Marble", "Wood", "Ivory">>, "bronze"))],
      \* five questions, one of them without the 'answer' key
      [quiz_title |-> "Generated Quiz",
       questions |-> WithQuestion(4, [question |-> "G4",
                                      options |-> <<"Akbar", "Ashoka", "Shah Jahan", "Tipu">>])] }

GenOutcomes ==
    { [kind |-> "client_error"], [kind |-> "api_error"], [kind |-> "invalid_json"] }
    \cup { [kind |-> "json", data |-> d] : d \in GenData }

\* FallbackQuiz with a slip in its last question: the answer is spelled
\* differently from the option.
FallbackQuiz_AnswerMisspelled(museum_name, museum_city) ==
    [quiz_title |-> "Fallback Quiz on " \o museum_name,
     questions |->
       << [question |-> "Which city is the " \o museum_name \o " located in?",
           options  |-> <<museum_city, "Mumbai", "Kolkata", "Delhi">>,
           answer   |-> museum_city],
          [question |-> "What is the primary purpose of a museum?",
           options  |-> <<"Entertainment", "Education and Preservation", "Shopping", "Sports">>,
           answer   |-> "Education and Preservation"],
          [question |-> "In which continent is India located?",
           options  |-> <<"Europe", "Africa", "Asia", "South America">>,
           answer   |-> "Asia"],
          [question |-> "The famous 'Dancing Girl' statuette belongs to which civilization?",
           options  |-> <<"Egyptian", "Mesopotamian", "Indus Valley", "Roman">>,
           answer   |-> "Indus Valley"],
          [question |-> "The term 'Mughal' refers to a dynasty from which country?",
           options  |-> <<"China", "India", "Turkey", "Mongolia">>,
           answer   |-> "mongolia"] >>]

\* The dict of the except branch of generate_quiz.
FallbackQuiz(museum_name, museum_city) ==
    [quiz_title |-> "Fallback Quiz on " \o museum_name,
     questions |->
       << [question |-> "Which city is the " \o museum_name \o " located in?",
           options  |-> <<museum_city, "Mumbai", "Kolkata", "Delhi">>,
           answer   |-> museum_city],
          [question |-> "What is the primary purpose of a museum?",
           options  |-> <<"Entertainment", "Education and Preservation", "Shopping", "Sports">>,
           answer   |-> "Education and Preservation"],
          [question |-> "In which continent is India located?",
           options  |-> <<"Europe", "Africa", "Asia", "South America">>,
           answer   |-> "Asia"],
          [question |-> "The famous 'Dancing Girl' statuette belongs to which civilization?",
           options  |-> <<"Egyptian", "Mesopotamian", "Indus Valley", "Roman">>,
           answer   |-> "Indus Valley"],
          [question |-> "The term 'Mughal' refers to a dynasty from which country?",
           options  |-> <<"China", "India", "Turkey", "Mongolia">>,
           answer   |-> "Mongolia"] >>]

\* quiz_data.get('questions', [])
QuestionsOf(data) == IF "questions" \in DOMAIN data THEN data.questions ELSE <<>>

\* generate_quiz(museum_name, museum_city) when the generator behaves as g:
\* None when the client cannot be created, the parsed object when it has
\* exactly 5 questions, the fallback quiz on every other failure.
generate_quiz(museum_name, museum_city, g) ==
    IF g.kind = "client_error" THEN None
    ELSE IF g.kind = "json" /\ Len(QuestionsOf(g.data)) = 5 THEN Some(g.data)
    ELSE Some(FallbackQuiz(museum_name, museum_city))


(***************************************************************************)
(* Text helpers.                                                           *)
(***************************************************************************)
RECURSIVE LStrip(_)
LStrip(s) == IF s # <<>> /\ Head(s) = " " THEN LStrip(Tail(s)) ELSE s

RECURSIVE RStrip(_)
RStrip(s) == IF s # <<>> /\ s[Len(s)] = " " THEN RStrip(SubSeq(s, 1, Len(s) - 1)) ELSE s

\* str.strip()
Strip(s) == RStrip(LStrip(s))

(***************************************************************************)
(* werkzeug.security.  generate_password_hash draws a random salt and      *)
(* stores it beside the digest of (salt, password); check_password_hash    *)
(* recomputes the digest with the stored salt.  The digest is taken to be  *)
(* collision free.                                                         *)
(***************************************************************************)
Digest(salt, password) == <<"digest", salt, password>>

generate_password_hash(password, salt) ==
    [salt |-> salt, digest |-> Digest(salt, password)]

\* check_password_hash that recomputes the digest without the password.
check_password_hash_SaltOnly(pwhash, password) ==
    pwhash.digest[2] = Digest(pwhash.salt, password)[2]

check_password_hash(pwhash, password) ==
    pwhash.digest = Digest(pwhash.salt, password)

(***************************************************************************)
(* Connections.  Every store operation is                                  *)
(*     conn = get_db();  try: ...  finally: conn.close()                   *)
(* so the connection it opened is closed when the body returns and when    *)
(* it raises.  release is the number of its connections an operation has   *)
(* closed when it is left; StoreOps is the number of connections left open *)
(* by that many operations that returned and that many that raised.        *)
(***************************************************************************)
\* The close at the end of the try block instead of in a finally clause.
release_NoFinally(opened, raised) == IF raised THEN 0 ELSE opened

release(opened, raised) == opened

StoreOps(returned, raised) ==
    returned * (1 - release(1, FALSE)) + raised * (1 - release(1, TRUE))

(***************************************************************************)
(* Store operations on the users table.                                    *)
(***************************************************************************)
\* The SELECT without its WHERE clause: the first row, if there is one.
get_user_AnyRow(tbl, username) ==
    IF tbl # <<>> THEN Some(tbl[1]) ELSE None

\* SELECT * FROM users WHERE username = ? ... fetchone(): the row or None.
get_user(tbl, username) ==
    IF \E i \in 1..Len(tbl) : tbl[i].username = username
    THEN Some(tbl[CHOOSE i \in 1..Len(tbl) : tbl[i].username = username])
    ELSE None

user_exists(tbl, username) == get_user(tbl, username) # None

\* get_user_id that takes the id of the first row, whatever the username.
get_user_id_FirstRow(tbl, username) ==
    IF tbl # <<>> THEN Some(tbl[1].id) ELSE None

get_user_id(tbl, username) ==
    IF get_user(tbl, username) # None THEN Some(get_user(tbl, username)[1].id) ELSE None

\* create_user on a table without the UNIQUE constraint.
create_user_NoUnique(tbl, username, email, password_hash) ==
    [ok |-> TRUE,
     users |-> Append(tbl, [id |-> Len(tbl) + 1, username |-> username,
                            email |-> email, password_hash |-> password_hash])]

\* INSERT INTO users: the UNIQUE constraint on username raises
\* sqlite3.IntegrityError (ok = FALSE, table unchanged); otherwise the row
\* is appended with the next AUTOINCREMENT id.
create_user(tbl, username, email, password_hash) ==
    IF \E i \in 1..Len(tbl) : tbl[i].username = username
    THEN [ok |-> FALSE, users |-> tbl]
    ELSE [ok |-> TRUE,
          users |-> Append(tbl, [id |-> Len(tbl) + 1, username |-> username,
                                 email |-> email, password_hash |-> password_hash])]

(***************************************************************************)
(* Responses.  Every handler step leaves in `last` what it answered.       *)
(***************************************************************************)
Idle == [pc |-> "idle"]

Response(op, who, status, flash) ==
    [op |-> op, who |-> who, status |-> status, flash |-> flash]

LoginResponse(s, status, flash, form) ==
    [op |-> "login", who |-> s, status |-> status, flash |-> flash, form |-> form]

\* A decorator that lets every request through.
LoggedOut_Never(s) == FALSE

\* login_required: 'user' not in session
LoggedOut(s) == session[s].user = None

\* A signup response, with the (stripped) username the form named.
SignupResponse(w, status, flash, form, raised) ==
    [op |-> "signup", who |-> w, status |-> status, flash |-> flash,
     form |-> form, raised |-> raised]

LoginRedirect(op, s) ==
    Response(op, s, "redirect:login", "You need to log in first.")

(***************************************************************************)
(* signup, POST.  The handler runs in two steps on worker w: the checks    *)
(* up to generate_password_hash, then create_user; another request may     *)
(* run in between.                                                         *)
(***************************************************************************)
signup(w, form, salt) ==
    LET username == Strip(form.username)
        email == Strip(form.email)
        password == form.password
        confirm_password == form.confirm_password
        flash == IF username = <<>> \/ email = <<>> \/ password = ""
                   THEN "Please complete all fields"
                 ELSE IF user_exists(users, username)
                   THEN "Username already exists"
                 ELSE IF password # confirm_password
                   THEN "Passwords do not match"
                 ELSE IF Len(password) < 6
                   THEN "Password must be at least 6 characters"
                 ELSE ""
    IN  /\ pending[w] = Idle
        /\ IF flash = ""
           THEN /\ pending' = [pending EXCEPT ![w] =
                       [pc |-> "create_user", form |-> form,
                        username |-> username, email |-> email,
                        password_hash |-> generate_password_hash(password, salt)]]
                /\ last' = SignupResponse(w, "running", "", form, "")
           ELSE /\ pending' = pending
                /\ last' = SignupResponse(w, "render:signup", flash, form, "")
        \* user_exists is reached when no field is empty
        /\ conns' = conns + (IF flash = "Please complete all fields" THEN 0
                             ELSE StoreOps(1, 0))
        /\ UNCHANGED <<users, reviews, wishlist_status, session, now, signed, toggles>>

signup_create_user(w) ==
    LET p == pending[w]
        r == create_user(users, p.username, p.email, p.password_hash)
    IN  /\ p.pc = "create_user"
        /\ users' = r.users
        /\ pending' = [pending EXCEPT ![w] = Idle]
        /\ IF r.ok
           THEN /\ last' = SignupResponse(w, "redirect:login",
                                    "Account created successfully! Please login.",
                                    p.form, "")
                /\ signed' = signed \cup {[username |-> p.username,
                                           password |-> p.form.password]}
           ELSE /\ last' = SignupResponse(w, "render:signup", "Username already exists",
                                    p.form, "sqlite3.IntegrityError")
                /\ signed' = signed
        /\ conns' = conns + (IF r.ok THEN StoreOps(1, 0) ELSE StoreOps(0, 1))
        /\ UNCHANGED <<reviews, wishlist_status, session, now, toggles>>

(***************************************************************************)
(* login, POST, and logout.                                                *)
(***************************************************************************)
login(s, form) ==
    LET username == Strip(form.username)
        password == form.password
        user == get_user(users, username)
    IN  /\ IF username = <<>> \/ password = ""
           THEN /\ last' = LoginResponse(s, "render:login",
                                         "Please provide username and password.", form)
                /\ session' = session
           ELSE IF user # None /\ check_password_hash(user[1].password_hash, password)
           THEN /\ session' = [session EXCEPT ![s].user = Some(user[1].username)]
                /\ last' = LoginResponse(s, "redirect:dashboard", "Login successful!", form)
           ELSE /\ last' = LoginResponse(s, "render:login", "Invalid username or password", form)
                /\ session' = session
        \* get_user is reached when both fields are given
        /\ conns' = conns + (IF username = <<>> \/ password = "" THEN 0
                             ELSE StoreOps(1, 0))
        /\ UNCHANGED <<users, reviews, wishlist_status, pending, now, signed, toggles>>

logout(s) ==
    /\ session' = [session EXCEPT ![s].user = None]
    /\ last' = Response("logout", s, "redirect:login", "You have been logged out")
    /\ UNCHANGED <<users, reviews, wishlist_status, pending, now, signed, toggles, conns>>

(***************************************************************************)
(* quiz, GET: generate a quiz and store it in the session.                 *)
(***************************************************************************)
QuizResponse(op, s, museum_key, status, flash) ==
    [op |-> op, who |-> s, museum_key |-> museum_key, status |-> status, flash |-> flash]

\* not quiz_data or not quiz_data.get('questions')
NoQuiz(quiz_data) == quiz_data = None \/ QuestionsOf(quiz_data[1]) = <<>>

\* quiz_data['museum_key'] = museum_key
Tagged(data, museum_key) ==
    [k \in DOMAIN data \cup {"museum_key"} |->
        IF k = "museum_key" THEN museum_key ELSE data[k]]

quiz_GET(s, museum_key, g) ==
    LET museum_details == MuseumGet(museum_key)
        quiz_data == generate_quiz(museum_details[1].name, museum_details[1].city, g)
    IN  /\ IF LoggedOut(s)
           THEN /\ last' = LoginRedirect("quiz_GET", s)
                /\ session' = session
           ELSE IF museum_details = None
           THEN /\ last' = QuizResponse("quiz_GET", s, museum_key,
                                        "redirect:quiz_selection", "Museum not found.")
                /\ session' = session
           ELSE IF NoQuiz(quiz_data)
           THEN /\ last' = [op |-> "quiz_GET", who |-> s, museum_key |-> museum_key,
                            status |-> "redirect:quiz_selection",
                            flash |-> "Could not generate quiz. Please try again.",
                            gen |-> g]
                /\ session' = session
           ELSE /\ session' = [session EXCEPT
                                  ![s].current_quiz = Some(Tagged(quiz_data[1], museum_key))]
                /\ last' = [op |-> "quiz_GET", who |-> s, museum_key |-> museum_key,
                            status |-> "render:quiz",
                            flash |-> "Generating a new AI Quiz",
                            gen |-> g,
                            questions |-> quiz_data[1].questions]
        /\ UNCHANGED <<users, reviews, wishlist_status, pending, now, signed, toggles, conns>>

(***************************************************************************)
(* quiz, POST: score the stored quiz against the submitted form.           *)
(***************************************************************************)
\* submitted_answers.get(f'q_{i}'), i counted from 1 here
FormGet(form, i) == IF i \in DOMAIN form THEN form[i] ELSE None

QuestionKeys == {"question", "options", "answer"}

\* IsCorrect that accepts any of the question's options.
IsCorrect_AnyOption(user_answer, q) ==
    \E j \in 1..Len(q.options) : user_answer = Some(q.options[j])

\* is_correct = (user_answer == q['answer'])
IsCorrect(user_answer, q) == user_answer = Some(q.answer)

\* The scoring loop from question i on: the score and the result records, or
\* a KeyError at the first question that lacks one of the keys the loop
\* body reads.
RECURSIVE ScoreLoop(_, _, _, _, _)
ScoreLoop(questions, form, i, score, results) ==
    IF i > Len(questions)
    THEN [error |-> FALSE, score |-> score, results |-> results]
    ELSE LET q == questions[i]
             user_answer == FormGet(form, i)
         IN  IF ~(QuestionKeys \subseteq DOMAIN q)
             THEN [error |-> TRUE, score |-> score, results |-> results]
             ELSE LET is_correct == IsCorrect(user_answer, q)
                  IN  ScoreLoop(questions, form, i + 1,
                                IF is_correct THEN score + 1 ELSE score,
                                Append(results,
                                       [question |-> q.question,
                                        user_answer |-> user_answer,
                                        correct_answer |-> q.answer,
                                        is_correct |-> is_correct,
                                        options |-> q.options]))

quiz_POST(s, museum_key, form) ==
    LET museum_details == MuseumGet(museum_key)
        stored == session[s].current_quiz
        scored == ScoreLoop(stored[1].questions, form, 1, 0, <<>>)
    IN  /\ IF LoggedOut(s)
           THEN /\ last' = LoginRedirect("quiz_POST", s)
                /\ session' = session
           ELSE IF museum_details = None
           THEN /\ last' = QuizResponse("quiz_POST", s, museum_key,
                                        "redirect:quiz_selection", "Museum not found.")
                /\ session' = session
           ELSE IF stored = None \/ stored[1].museum_key # museum_key
           THEN /\ last' = QuizResponse("quiz_POST", s, museum_key,
                                        "redirect:quiz_selection",
                                        "Quiz session expired or mismatched. Please generate a new quiz.")
                /\ session' = session
           ELSE IF scored.error
           THEN \* the KeyError leaves the handler before session.pop
                /\ last' = [op |-> "quiz_POST", who |-> s, museum_key |-> museum_key,
                            status |-> "error:500", flash |-> "",
                            form |-> form, quiz_data |-> stored[1]]
                /\ session' = session
           ELSE /\ session' = [session EXCEPT ![s].current_quiz = None]
                /\ last' = [op |-> "quiz_POST", who |-> s, museum_key |-> museum_key,
                            status |-> "render:results", flash |-> "",
                            form |-> form, quiz_data |-> stored[1],
                            score |-> scored.score,
                            total_questions |-> Len(stored[1].questions),
                            results |-> scored.results]
        /\ UNCHANGED <<users, reviews, wishlist_status, pending, now, signed, toggles, conns>>

(***************************************************************************)
(* Store operations on the reviews and wishlist_status tables.             *)
(***************************************************************************)
\* INSERT INTO reviews: the row gets the next id and CURRENT_TIMESTAMP.
add_museum_review(tbl, user_id, museum_key, rating, review_text, ts) ==
    Append(tbl, [id |-> Len(tbl) + 1, user_id |-> user_id, museum_key |-> museum_key,
                 rating |-> rating, review_text |-> review_text, timestamp |-> ts])

\* SELECT is_visited ...: row['is_visited'] if row else 0
get_wishlist_status(tbl, user_id, museum_key) ==
    LET rows == {r \in tbl : Some(r.user_id) = user_id /\ r.museum_key = museum_key}
    IN  IF rows # {} THEN (CHOOSE r \in rows : TRUE).is_visited ELSE 0

\* new_status_of that marks the museum visited whatever it was.
new_status_of_AlwaysVisited(current_status) == 1

\* new_status = 1 if current_status == 0 else 0
new_status_of(current_status) == IF current_status = 0 THEN 1 ELSE 0

\* A plain INSERT into a table without the primary key: nothing is replaced.
upsert_wishlist_InsertOnly(tbl, user_id, museum_key, is_visited) ==
    tbl \cup {[user_id |-> user_id, museum_key |-> museum_key, is_visited |-> is_visited]}

\* INSERT OR REPLACE INTO wishlist_status: the row with the same primary
\* key (user_id, museum_key), if any, is replaced.
upsert_wishlist(tbl, user_id, museum_key, is_visited) ==
    {r \in tbl : ~(r.user_id = user_id /\ r.museum_key = museum_key)}
    \cup {[user_id |-> user_id, museum_key |-> museum_key, is_visited |-> is_visited]}

(***************************************************************************)
(* int(): surrounding blanks are dropped, one sign is allowed, the rest    *)
(* must be decimal digits; anything else is a ValueError (None).           *)
(***************************************************************************)
Digits == {"0", "1", "2", "3", "4", "5", "6", "7", "8", "9"}

DigitValue(c) ==
    CASE c = "0" -> 0 [] c = "1" -> 1 [] c = "2" -> 2 [] c = "3" -> 3 [] c = "4" -> 4
      [] c = "5" -> 5 [] c = "6" -> 6 [] c = "7" -> 7 [] c = "8" -> 8 [] c = "9" -> 9

RECURSIVE DecimalValue(_)
DecimalValue(ds) ==
    IF ds = <<>> THEN 0
    ELSE 10 * DecimalValue(SubSeq(ds, 1, Len(ds) - 1)) + DigitValue(ds[Len(ds)])

ParseInt(text) ==
    LET t == Strip(text)
        signed_ == t # <<>> /\ Head(t) \in {"-", "+"}
        body == IF signed_ THEN Tail(t) ELSE t
    IN  IF body = <<>> \/ \E i \in 1..Len(body) : body[i] \notin Digits
        THEN None
        ELSE Some(IF signed_ /\ Head(t) = "-" THEN 0 - DecimalValue(body)
                  ELSE DecimalValue(body))

\* try: rating = int(request.form.get('rating') or 0)  except ValueError: 0
RatingOf(field) ==
    IF field = None \/ field[1] = <<>> THEN 0
    ELSE IF ParseInt(field[1]) = None THEN 0
    ELSE ParseInt(field[1])[1]

\* ValidReview with the lower bound off by one.
ValidReview_ZeroAllowed(review_text, rating) ==
    review_text # "" /\ 0 <= rating /\ rating <= 5

\* review_text and 1 <= rating <= 5
ValidReview(review_text, rating) == review_text # "" /\ 1 <= rating /\ rating <= 5

(***************************************************************************)
(* museum_profile, POST.  A form is the record of the fields it carries:   *)
(* toggle_visited says whether that key is present, review_text and rating *)
(* are None when absent.  The review branch is one step; the toggle branch *)
(* reads the flag in this step and writes it in toggle_wishlist_write.     *)
(***************************************************************************)
MaxReviews == 3

MuseumResponse(s, museum_key, status, flash, form) ==
    [op |-> "museum_POST", who |-> s, museum_key |-> museum_key, status |-> status,
     flash |-> flash, form |-> form]

museum_profile_POST(s, w, museum_key, form) ==
    LET museum_details == MuseumGet(museum_key)
        user_id == get_user_id(users, session[s].user[1])
        review_text == IF form.review_text = None THEN "" ELSE form.review_text[1]
        rating == RatingOf(form.rating)
        current_status == get_wishlist_status(wishlist_status, user_id, museum_key)
    IN  /\ pending[w] = Idle
        /\ IF LoggedOut(s)
           THEN /\ last' = LoginRedirect("museum_POST", s)
                /\ UNCHANGED <<reviews, pending, conns>>
           ELSE IF museum_details = None
           THEN /\ last' = MuseumResponse(s, museum_key, "redirect:dashboard",
                                          "Museum profile not found.", form)
                /\ UNCHANGED <<reviews, pending, conns>>
           ELSE IF session[s].user = None
           THEN \* session['user'] is a KeyError
                /\ last' = MuseumResponse(s, museum_key, "error:500", "", form)
                /\ UNCHANGED <<reviews, pending, conns>>
           ELSE IF form.toggle_visited
           THEN \* get_user_id; toggle_wishlist_status opens its connection
                \* and calls get_wishlist_status
                /\ pending' = [pending EXCEPT ![w] =
                       [pc |-> "toggle_write", who |-> s, form |-> form,
                        user |-> session[s].user[1],
                        user_id |-> user_id, museum_key |-> museum_key,
                        current_status |-> current_status,
                        new_status |-> new_status_of(current_status)]]
                /\ last' = MuseumResponse(s, museum_key, "running", "", form)
                /\ conns' = conns + StoreOps(1, 0) + 1 + StoreOps(1, 0)
                /\ UNCHANGED reviews
           ELSE IF form.review_text = None
           THEN /\ last' = MuseumResponse(s, museum_key, "redirect:museum_profile", "", form)
                /\ conns' = conns + StoreOps(1, 0)
                /\ UNCHANGED <<reviews, pending>>
           ELSE IF ~ValidReview(review_text, rating)
           THEN /\ last' = MuseumResponse(s, museum_key, "redirect:museum_profile",
                                          "Invalid review or rating submitted.", form)
                /\ conns' = conns + StoreOps(1, 0)
                /\ UNCHANGED <<reviews, pending>>
           ELSE IF user_id = None
           THEN \* NOT NULL constraint on reviews.user_id
                /\ last' = MuseumResponse(s, museum_key, "error:500", "", form)
                /\ conns' = conns + StoreOps(1, 1)
                /\ UNCHANGED <<reviews, pending>>
           ELSE /\ Len(reviews) < MaxReviews
                /\ reviews' = add_museum_review(reviews, user_id[1], museum_key,
                                                rating, review_text, now)
                /\ last' = MuseumResponse(s, museum_key, "redirect:museum_profile",
                                          "Your review has been posted!", form)
                /\ conns' = conns + StoreOps(2, 0)
                /\ UNCHANGED pending
        /\ UNCHANGED <<users, wishlist_status, session, now, signed, toggles>>

\* The last two completed calls, the newest last.
Remember(history, call) ==
    IF Len(history) < 2 THEN Append(history, call) ELSE <<history[2], call>>

\* The rest of toggle_wishlist_status: INSERT OR REPLACE, commit, and the
\* finally clause that closes the connection the call opened.
toggle_wishlist_write(w) ==
    LET p == pending[w]
    IN  /\ p.pc = "toggle_write"
        /\ pending' = [pending EXCEPT ![w] = Idle]
        /\ IF p.user_id = None
           THEN \* NOT NULL constraint on wishlist_status.user_id
                /\ last' = MuseumResponse(p.who, p.museum_key, "error:500", "", p.form)
                /\ conns' = conns - release(1, TRUE)
                /\ UNCHANGED <<wishlist_status, toggles>>
           ELSE /\ wishlist_status' = upsert_wishlist(wishlist_status, p.user_id[1],
                                                      p.museum_key, p.new_status)
                /\ toggles' = Remember(toggles,
                                  [user_id |-> p.user_id[1], museum_key |-> p.museum_key,
                                   current_status |-> p.current_status,
                                   returned |-> p.new_status])
                /\ last' = MuseumResponse(p.who, p.museum_key, "redirect:museum_profile",
                                          IF p.new_status = 1 THEN "updated to Visited"
                                          ELSE "updated to Wishlist", p.form)
                /\ conns' = conns - release(1, FALSE)
        /\ UNCHANGED <<users, reviews, session, now, signed>>

\* CURRENT_TIMESTAMP advances.
MaxTime == 1

Tick ==
    /\ now < MaxTime
    /\ now' = now + 1
    /\ UNCHANGED <<users, reviews, wishlist_status, session, pending, last, signed, toggles,
                   conns>>

(***************************************************************************)
(* The inputs requests are drawn from.                                     *)
(***************************************************************************)
Sessions == {"s1", "s2"}
Workers == {"w1", "w2"}

Alice == <<"a">>
Bob == <<"b">>

\* One browser, one account: what the quiz and museum pages need to be used.
OneSession == {"s1"}
AliceSignup == [username |-> Alice, email |-> <<"e">>,
                password |-> "secret1", confirm_password |-> "secret1"]
AliceLogin == [username |-> Alice, password |-> "secret1"]

\* The keys a quiz URL names: every catalog key and one that is none.
QuizKeys == CatalogKeys \cup {"no_such_museum"}

\* The form posted to /quiz/museum_key.  When the session holds a quiz for
\* that key, each field is left out, or holds the first option, or holds the
\* answer of its question; otherwise the handler never reads the fields.
AnswerChoices(q) ==
    {None}
    \cup (IF "options" \in DOMAIN q /\ q.options # <<>> THEN {Some(q.options[1])} ELSE {})
    \cup (IF "answer" \in DOMAIN q THEN {Some(q.answer)} ELSE {})

QuizForms(s, museum_key) ==
    LET stored == session[s].current_quiz
        C(i) == AnswerChoices(stored[1].questions[i])
    IN  IF stored = None \/ stored[1].museum_key # museum_key
        THEN {[i \in 1..5 |-> None], [i \in 1..5 |-> Some("Asia")]}
        ELSE {<<a1, a2, a3, a4, a5>> :
                 a1 \in C(1), a2 \in C(2), a3 \in C(3), a4 \in C(4), a5 \in C(5)}

Init ==
    /\ users = <<>>
    /\ reviews = <<>>
    /\ wishlist_status = {}
    /\ session = [s \in Sessions |-> [user |-> None, current_quiz |-> None]]
    /\ pending = [w \in Workers |-> Idle]
    /\ now = 0
    /\ last = Response("init", "", "", "")
    /\ signed = {}
    /\ toggles = <<>>
    /\ conns = 0

(***************************************************************************)
(* The quiz life cycle of one browser session.                             *)
(***************************************************************************)
NextQuiz ==
    \/ signup("w1", AliceSignup, "salt1")
    \/ signup_create_user("w1")
    \/ \E s \in OneSession : login(s, AliceLogin)
    \/ \E s \in OneSession : logout(s)
    \/ \E s \in OneSession, k \in QuizKeys, g \in GenOutcomes : quiz_GET(s, k, g)
    \/ \E s \in OneSession, k \in QuizKeys : \E form \in QuizForms(s, k) : quiz_POST(s, k, form)

SpecQuiz == Init /\ [][NextQuiz]_vars

(***************************************************************************)
(* Quiz claims, under SpecQuiz.                                            *)
(***************************************************************************)
\* The generator failed: no client, an exception, no JSON, or a question
\* count other than 5.
GenFailed(g) == g.kind # "json" \/ Len(QuestionsOf(g.data)) # 5

\* The failures generate_quiz handles in its except branch.
GenFailedInCall(g) == g.kind # "client_error" /\ GenFailed(g)

\* 5 questions, each with 4 options and an answer that is one of them.
WellFormedQuestions(questions) ==
    /\ Len(questions) = 5
    /\ \A i \in 1..Len(questions) :
          /\ QuestionKeys \subseteq DOMAIN questions[i]
          /\ Len(questions[i].options) = 4
          /\ \E j \in 1..Len(questions[i].options) :
                questions[i].options[j] = questions[i].answer

\* The last step was the generation request of a logged-in user for a
\* catalog museum (the generator was called).
Generated == last.op = "quiz_GET" /\ "gen" \in DOMAIN last

\* C1: a generation request of a logged-in user for a catalog museum whose
\* generator fails in any way still presents a quiz: the response renders
\* the quiz page and the session holds a quiz tagged with that museum key.
C1_FailureNeverSurfaced ==
    (Generated /\ GenFailed(last.gen))
        => /\ last.status = "render:quiz"
           /\ session[last.who].current_quiz # None
           /\ session[last.who].current_quiz[1].museum_key = last.museum_key

\* C2: when generate_quiz takes its except branch (the call raises, the text
\* is not JSON, the question count is not 5) the quiz it returns has exactly
\* 5 questions, each with exactly 4 options and its answer among them, for
\* every museum of the catalog.
C2_FallbackWellFormed ==
    \A k \in CatalogKeys :
        (Generated /\ last.museum_key = k /\ GenFailedInCall(last.gen))
            => /\ "questions" \in DOMAIN last
               /\ WellFormedQuestions(last.questions)

C2_Witness ==
    /\ Generated
    /\ last.museum_key = "csmvs_mumbai"
    /\ last.gen.kind = "invalid_json"
    /\ last.status = "render:quiz"
    /\ last.questions[1].answer = "Mumbai"

\* The last step answered a scoring request with the session-mismatch
\* redirect.
Mismatched ==
    /\ last.op = "quiz_POST"
    /\ last.status = "redirect:quiz_selection"
    /\ last.flash = "Quiz session expired or mismatched. Please generate a new quiz."

\* C3: after a scoring request that was refused because the stored quiz is
\* tagged with another museum key, the session holds no stored quiz.
C3_MismatchDeletesQuiz ==
    Mismatched => session[last.who].current_quiz = None

\* The last step was a scoring request that passed the session and
\* museum-key check.
ScoringStarted ==
    last.op = "quiz_POST" /\ last.status \in {"render:results", "error:500"}

\* C4: a scoring request that passed the session/museum-key check ends
\* with no quiz stored in the session, also when scoring failed partway.
C4_QuizRemovedOnEveryExit ==
    ScoringStarted => session[last.who].current_quiz = None

\* The positions of the last scored quiz.
Positions == 1..Len(last.quiz_data.questions)

\* C5: a completed scoring has one record per question, in order; record i
\* is correct exactly when field q_i was submitted and equals the answer
\* string of question i, it carries the submitted value (absent when the
\* field was omitted), and the score is the number of correct records.
C5_ScoringExact ==
    (last.op = "quiz_POST" /\ last.status = "render:results")
        => /\ Len(last.results) = Len(last.quiz_data.questions)
           /\ last.total_questions = Len(last.quiz_data.questions)
           /\ \A i \in Positions :
                 /\ last.results[i].question = last.quiz_data.questions[i].question
                 /\ last.results[i].correct_answer = last.quiz_data.questions[i].answer
                 /\ last.results[i].options = last.quiz_data.questions[i].options
                 /\ last.results[i].user_answer = last.form[i]
                 /\ last.results[i].is_correct
                       = (/\ last.form[i] # None
                          /\ last.form[i][1] = last.quiz_data.questions[i].answer)
           /\ last.score = Cardinality({i \in Positions : last.results[i].is_correct})
           /\ (\A i \in Positions : last.form[i] = Some(last.quiz_data.questions[i].answer))
                 => last.score = 5

\* A scoring in which exactly one field was omitted and the four others
\* hold the answers: 4 of 5, the omitted position incorrect and absent.
C5_Witness ==
    /\ last.op = "quiz_POST"
    /\ last.status = "render:results"
    /\ last.form[3] = None
    /\ \A i \in Positions \ {3} : last.form[i] = Some(last.quiz_data.questions[i].answer)
    /\ last.score = 4
    /\ ~last.results[3].is_correct
    /\ last.results[3].user_answer = None

\* C6: a quiz held in a session has exactly 5 questions, each with exactly
\* 4 options and a correct answer equal to one of them.
C6_StoredQuizWellFormed ==
    \A s \in Sessions :
        session[s].current_quiz # None
            => WellFormedQuestions(session[s].current_quiz[1].questions)

(***************************************************************************)
(* Account creation by two concurrent workers.                             *)
(***************************************************************************)
SignupForms ==
    [username : {<<>>, Alice, <<" ", "a", " ">>, Bob},
     email : {<<>>, <<" ">>, <<"e">>},
     password : {"", "short", "secret1", "secret2"},
     confirm_password : {"secret1", "secret2"}]

NextSignup ==
    \/ \E w \in Workers, form \in SignupForms : signup(w, form, "salt1")
    \/ \E w \in Workers : signup_create_user(w)

SpecSignup == Init /\ [][NextSignup]_vars

\* A signup request has just been answered (by either of its two steps).
SignupAnswered == last'.op = "signup" /\ last'.status # "running"

\* The answered signup named a username that had a row before the step.
NamedExisting == user_exists(users, Strip(last'.form.username))

DuplicateReported ==
    /\ last'.status = "render:signup"
    /\ last'.flash = "Username already exists"
    /\ users' = users

UsernamesUnique ==
    \A i, j \in 1..Len(users) : users[i].username = users[j].username => i = j

\* C7 as claimed: every signup naming an existing username reports the
\* duplicate-username error and adds no row, and usernames stay unique.
C7_DuplicateAlwaysReported ==
    /\ []UsernamesUnique
    /\ [][(SignupAnswered /\ NamedExisting) => DuplicateReported]_vars

\* The form leaves none of username, email, password empty.
Complete(form) ==
    Strip(form.username) # <<>> /\ Strip(form.email) # <<>> /\ form.password # ""

\* C7 as amended: a signup naming an existing username adds no row; it
\* reports the duplicate-username error when username, email and password
\* are all non-empty (whether the pre-check or the uniqueness constraint
\* finds the row) and the missing-field error otherwise; usernames stay
\* unique.
C7_DuplicateReportedWhenComplete ==
    /\ []UsernamesUnique
    /\ [][(SignupAnswered /\ NamedExisting)
            => /\ users' = users
               /\ last'.status = "render:signup"
               /\ last'.flash = IF Complete(last'.form)
                                THEN "Username already exists"
                                ELSE "Please complete all fields"]_vars

\* Two signups for the same new username both passed the pre-check; the
\* second insert was rejected by the constraint and reported as duplicate.
C7_Witness ==
    /\ last.op = "signup"
    /\ last.raised = "sqlite3.IntegrityError"
    /\ last.flash = "Username already exists"
    /\ Len(users) = 1
    /\ users[1].username = Strip(last.form.username)

(***************************************************************************)
(* Accounts and sessions: signup, login and logout from two browsers.      *)
(***************************************************************************)
ValidSignupForms ==
    { [username |-> u, email |-> <<"e">>, password |-> p, confirm_password |-> p] :
         u \in {Alice, Bob}, p \in {"secret1", "secret2"} }

LoginForms ==
    [username : {<<>>, Alice, <<" ", "a", " ">>, Bob},
     password : {"", "short", "secret1", "secret2"}]

Salts == {"salt1", "salt2"}

NextAuth ==
    \/ \E form \in ValidSignupForms, salt \in Salts : signup("w1", form, salt)
    \/ signup_create_user("w1")
    \/ \E s \in Sessions, form \in LoginForms : login(s, form)
    \/ \E s \in Sessions : logout(s)

SpecAuth == Init /\ [][NextAuth]_vars

\* The plaintext the account of this username was created with.
Original(username) ==
    (CHOOSE a \in signed : a.username = username).password

\* C8: a login naming an account that a signup created succeeds, and puts
\* that username in the session, exactly when the submitted password is
\* the plaintext of that signup; with any other password it fails and the
\* session is left as it was.
C8_LoginIffOriginalPassword ==
    [][(/\ last'.op = "login"
        /\ \E a \in signed : a.username = Strip(last'.form.username))
         => LET username == Strip(last'.form.username)
            IN  IF last'.form.password = Original(username)
                THEN /\ last'.status = "redirect:dashboard"
                     /\ session'[last'.who].user = Some(username)
                ELSE /\ last'.status = "render:login"
                     /\ session' = session]_vars

\* A login to an existing account with the password of another account was
\* refused and left the browser logged out.
C8_Witness ==
    /\ last.op = "login"
    /\ last.status = "render:login"
    /\ last.form.password = "secret2"
    /\ [username |-> Strip(last.form.username), password |-> "secret1"] \in signed
    /\ [username |-> Bob, password |-> "secret2"] \in signed
    /\ session[last.who].user = None

(***************************************************************************)
(* The wishlist flag, toggled by one worker: calls do not overlap.         *)
(***************************************************************************)
ProfileKeys == {"national_museum_new_delhi", "csmvs_mumbai", "no_such_museum"}

BobSignup == [username |-> Bob, email |-> <<"e">>,
              password |-> "secret2", confirm_password |-> "secret2"]
BobLogin == [username |-> Bob, password |-> "secret2"]

ToggleForms ==
    { [toggle_visited |-> TRUE, review_text |-> None, rating |-> None],
      [toggle_visited |-> TRUE, review_text |-> Some("Great"), rating |-> Some(<<"5">>)] }

NextWishlist ==
    \/ \E form \in {AliceSignup, BobSignup} : signup("w1", form, "salt1")
    \/ signup_create_user("w1")
    \/ \E s \in OneSession, form \in {AliceLogin, BobLogin} : login(s, form)
    \/ \E s \in OneSession, k \in ProfileKeys, form \in ToggleForms :
          museum_profile_POST(s, "w1", k, form)
    \/ toggle_wishlist_write("w1")

SpecWishlist == Init /\ [][NextWishlist]_vars

\* The two calls completed last toggled the same (user, museum) pair.
TwoConsecutive ==
    /\ Len(toggles) = 2
    /\ toggles[1].user_id = toggles[2].user_id
    /\ toggles[1].museum_key = toggles[2].museum_key

\* C9: of two consecutive toggles of one pair the first returns the
\* negation of the status before them and the second returns that status,
\* which is also what get_wishlist_status gives afterwards (0 when the
\* pair had no row).
C9_ToggleInvolution ==
    TwoConsecutive
        => LET before == toggles[1].current_status
           IN  /\ before \in {0, 1}
               /\ toggles[1].returned = 1 - before
               /\ toggles[2].returned = before
               /\ get_wishlist_status(wishlist_status, Some(toggles[2].user_id),
                                      toggles[2].museum_key) = before

\* Two toggles of a pair that had no row: 1, then 0, and a row holding 0.
C9_Witness ==
    /\ TwoConsecutive
    /\ toggles[1].returned = 1
    /\ toggles[2].returned = 0
    /\ [user_id |-> toggles[2].user_id, museum_key |-> toggles[2].museum_key,
        is_visited |-> 0] \in wishlist_status
    /\ Cardinality(wishlist_status) = 2

(***************************************************************************)
(* Reviews of one museum, posted by one logged-in user.                    *)
(***************************************************************************)
ReviewKeys == {"csmvs_mumbai", "no_such_museum"}

ReviewForms ==
    [toggle_visited : {FALSE},
     review_text : {None, Some(""), Some("Great")},
     rating : {None, Some(<<>>), Some(<<"0">>), Some(<<"1">>), Some(<<"5">>),
               Some(<<"6">>), Some(<<"a">>), Some(<<"-", "1">>)}]

NextReview ==
    \/ signup("w1", AliceSignup, "salt1")
    \/ signup_create_user("w1")
    \/ \E s \in OneSession : login(s, AliceLogin)
    \/ \E s \in OneSession, k \in ReviewKeys, form \in ReviewForms :
          museum_profile_POST(s, "w1", k, form)
    \/ Tick

SpecReview == Init /\ [][NextReview]_vars

\* The step answered a review submission: a POST of a logged-in user to a
\* catalog museum whose form carries review_text and not toggle_visited.
ReviewSubmitted ==
    /\ now' = now    \* a request, not the clock
    /\ last'.op = "museum_POST"
    /\ last'.status \in {"redirect:museum_profile", "error:500"}
    /\ ~last'.form.toggle_visited
    /\ last'.form.review_text # None

\* The submitted text is non-empty and the rating is an integer in 1..5.
Acceptable(form) ==
    /\ form.review_text[1] # ""
    /\ form.rating # None
    /\ \E n \in 1..5 : ParseInt(form.rating[1]) = Some(n)

ReviewRowsValid ==
    \A i \in 1..Len(reviews) :
        reviews[i].rating \in 1..5 /\ reviews[i].review_text # ""

\* C10: a review submission appends one row (with the submitted text and
\* rating) exactly when the text is non-empty and the rating is an integer
\* in 1..5, and leaves the table unchanged otherwise; every row has a
\* rating in 1..5 and a non-empty text; no step changes or removes a row.
C10_ReviewStoredIffValid ==
    /\ []ReviewRowsValid
    /\ [][ReviewSubmitted
            => IF Acceptable(last'.form)
               THEN /\ Len(reviews') = Len(reviews) + 1
                    /\ reviews'[Len(reviews')].review_text = last'.form.review_text[1]
                    /\ Some(reviews'[Len(reviews')].rating) = ParseInt(last'.form.rating[1])
                    /\ reviews'[Len(reviews')].museum_key = last'.museum_key
                    /\ last'.flash = "Your review has been posted!"
               ELSE /\ reviews' = reviews
                    /\ last'.flash = "Invalid review or rating submitted."]_vars
    /\ [][/\ Len(reviews') >= Len(reviews)
          /\ SubSeq(reviews', 1, Len(reviews)) = reviews]_vars

\* Reviews with the boundary ratings 1 and 5 are stored.
C10_Witness ==
    /\ Len(reviews) = 2
    /\ reviews[1].rating = 1
    /\ reviews[2].rating = 5
    /\ last.op = "museum_POST"
    /\ last.flash = "Your review has been posted!"

(***************************************************************************)
(* museum_profile, GET: the page of a museum with the AI summary, the      *)
(* wishlist flag of the logged-in user and the reviews of the museum.      *)
(***************************************************************************)
\* What the summary service does: no client, an API exception, a text.
SummaryOutcomes == {"client_error", "api_error", "text"}

get_museum_summary(museum_name, city, outcome) ==
    IF outcome = "client_error"
    THEN "AI summary service unavailable. Check your GEMINI_API_KEY."
    ELSE IF outcome = "api_error"
    THEN "Could not fetch AI summary for " \o museum_name \o "."
    ELSE "A summary of " \o museum_name \o " in " \o city

\* r JOIN users u ON r.user_id = u.id: the selected columns of one row.
Joined(utbl, r) ==
    LET u == CHOOSE i \in 1..Len(utbl) : utbl[i].id = r.user_id
    IN  [rating |-> r.rating, review_text |-> r.review_text,
         timestamp |-> r.timestamp, username |-> utbl[u].username]

\* The sorter putting a row in front of the rows with the same timestamp.
SortedInsert_TiesReversed(sorted, row) ==
    LET k == Cardinality({i \in 1..Len(sorted) : sorted[i].timestamp > row.timestamp})
    IN  SubSeq(sorted, 1, k) \o <<row>> \o SubSeq(sorted, k + 1, Len(sorted))

\* The sorter: a row goes behind the rows whose timestamp is not smaller,
\* so rows with equal timestamps stay in the order they arrive in.
SortedInsert(sorted, row) ==
    LET k == Cardinality({i \in 1..Len(sorted) : sorted[i].timestamp >= row.timestamp})
    IN  SubSeq(sorted, 1, k) \o <<row>> \o SubSeq(sorted, k + 1, Len(sorted))

\* SELECT ... FROM reviews r JOIN users u ... WHERE r.museum_key = ?
\* ORDER BY r.timestamp DESC: reviews is scanned in rowid order, the rows
\* of the museum that have a user are joined and handed to the sorter.
RECURSIVE ScanReviews(_, _, _, _, _)
ScanReviews(rtbl, utbl, museum_key, i, sorted) ==
    IF i > Len(rtbl) THEN sorted
    ELSE IF rtbl[i].museum_key = museum_key
            /\ \E j \in 1..Len(utbl) : utbl[j].id = rtbl[i].user_id
    THEN ScanReviews(rtbl, utbl, museum_key, i + 1,
                     SortedInsert(sorted, Joined(utbl, rtbl[i])))
    ELSE ScanReviews(rtbl, utbl, museum_key, i + 1, sorted)

get_museum_reviews(rtbl, utbl, museum_key) ==
    ScanReviews(rtbl, utbl, museum_key, 1, <<>>)

PageResponse(op, s, museum_key, status, flash) ==
    [op |-> op, who |-> s, museum_key |-> museum_key, status |-> status, flash |-> flash]

museum_profile_GET(s, museum_key, outcome) ==
    LET museum_details == MuseumGet(museum_key)
        user_id == get_user_id(users, session[s].user[1])
    IN  /\ IF LoggedOut(s)
           THEN /\ last' = LoginRedirect("museum_GET", s)
                /\ conns' = conns
           ELSE IF museum_details = None
           THEN /\ last' = PageResponse("museum_GET", s, museum_key, "redirect:dashboard",
                                        "Museum profile not found.")
                /\ conns' = conns
           ELSE IF session[s].user = None
           THEN \* session['user'] is a KeyError
                /\ last' = PageResponse("museum_GET", s, museum_key, "error:500", "")
                /\ conns' = conns
           ELSE \* get_user_id, get_wishlist_status, get_museum_reviews
                /\ last' = [op |-> "museum_GET", who |-> s, museum_key |-> museum_key,
                            status |-> "render:museum_profile", flash |-> "",
                            ai_summary |-> get_museum_summary(museum_details[1].name,
                                                              museum_details[1].city,
                                                              outcome),
                            wishlist_status |-> get_wishlist_status(wishlist_status,
                                                                    user_id, museum_key),
                            reviews |-> get_museum_reviews(reviews, users, museum_key)]
                /\ conns' = conns + StoreOps(3, 0)
        /\ UNCHANGED <<users, reviews, wishlist_status, session, pending, now, signed,
                       toggles>>

(***************************************************************************)
(* Reviews of two museums by two users, listed on the museum pages.        *)
(***************************************************************************)
ListingKeys == {"csmvs_mumbai", "bihar_museum_patna"}

ListingForms ==
    { [toggle_visited |-> FALSE, review_text |-> Some("Great"), rating |-> Some(<<"5">>)] }

NextListing ==
    \/ \E form \in {AliceSignup, BobSignup} : signup("w1", form, "salt1")
    \/ signup_create_user("w1")
    \/ \E s \in OneSession, form \in {AliceLogin, BobLogin} : login(s, form)
    \/ \E s \in OneSession, k \in ListingKeys, form \in ListingForms :
          museum_profile_POST(s, "w1", k, form)
    \/ \E s \in OneSession, k \in ListingKeys : museum_profile_GET(s, k, "text")
    \/ Tick

SpecListing == Init /\ [][NextListing]_vars

\* The rowids of the reviews of a museum.
ReviewsOf(museum_key) == {i \in 1..Len(reviews) : reviews[i].museum_key = museum_key}

\* Review a is listed before review b: it is newer, or as old and inserted first.
ListedBefore(a, b) ==
    \/ reviews[a].timestamp > reviews[b].timestamp
    \/ reviews[a].timestamp = reviews[b].timestamp /\ a < b

\* The place of review a in the listing of its museum.
PlaceOf(a) ==
    1 + Cardinality({b \in ReviewsOf(reviews[a].museum_key) : ListedBefore(b, a)})

Listed == last.op = "museum_GET" /\ last.status = "render:museum_profile"

MUSEUM_ITEMS ==
    <<[key |-> "national_museum_new_delhi",
       name |->
         <<"N", "a", "t", "i", "o", "n", "a", "l", " ", "M", "u", "s",
           "e", "u", "m">>,
       city |->
         <<"N", "e", "w", " ", "D", "e", "l", "h", "i">>],
      [key |-> "indian_museum_kolkata",
       name |->
         <<"I", "n", "d", "i", "a", "n", " ", "M", "u", "s", "e", "u",
           "m">>,
       city |->
         <<"K", "o", "l", "k", "a", "t", "a">>],
      [key |-> "csmvs_mumbai",
       name |->
         <<"C", "h", "h", "a", "t", "r", "a", "p", "a", "t", "i", " ",
           "S", "h", "i", "v", "a", "j", "i", " ", "M", "a", "h", "a",
           "r", "a", "j", " ", "V", "a", "s", "t", "u", " ", "S", "a",
           "n", "g", "r", "a", "h", "a", "l", "a", "y", "a">>,
       city |->
         <<"M", "u", "m", "b", "a", "i">>],
      [key |-> "salar_jung_museum_hyderabad",
       name |->
         <<"S", "a", "l", "a", "r", " ", "J", "u", "n", "g", " ", "M",
           "u", "s", "e", "u", "m">>,
       city |->
         <<"H", "y", "d", "e", "r", "a", "b", "a", "d">>],
      [key |-> "bihar_museum_patna",
       name |->
         <<"B", "i", "h", "a", "r", " ", "M", "u", "s", "e", "u", "m">>,
       city |->
         <<"P", "a", "t", "n", "a">>],
      [key |-> "albert_hall_museum_jaipur",
       name |->
         <<"A", "l", "b", "e", "r", "t", " ", "H", "a", "l", "l", " ",
           "M", "u", "s", "e", "u", "m">>,
       city |->
         <<"J", "a", "i", "p", "u", "r">>],
      [key |-> "calico_museum_of_textiles",
       name |->
         <<"C", "a", "l", "i", "c", "o", " ", "M", "u", "s", "e", "u",
           "m", " ", "o", "f", " ", "T", "e", "x", "t", "i", "l", "e",
           "s">>,
       city |->
         <<"A", "h", "m", "e", "d", "a", "b", "a", "d">>],
      [key |-> "national_rail_museum_new_delhi",
       name |->
         <<"N", "a", "t", "i", "o", "n", "a", "l", " ", "R", "a", "i",
           "l", " ", "M", "u", "s", "e", "u", "m">>,
       city |->
         <<"N", "e", "w", " ", "D", "e", "l", "h", "i">>],
      [key |-> "government_museum_chennai",
       name |->
         <<"G", "o", "v", "e", "r", "n", "m", "e", "n", "t", " ", "M",
           "u", "s", "e", "u", "m">>,
       city |->
         <<"C", "h", "e", "n", "n", "a", "i">>],
      [key |-> "national_gallery_of_modern_art_new_delhi",
       name |->
         <<"N", "a", "t", "i", "o", "n", "a", "l", " ", "G", "a", "l",
           "l", "e", "r", "y", " ", "o", "f", " ", "M", "o", "d", "e",
           "r", "n", " ", "A", "r", "t", " ", "(", "N", "G", "M", "A",
           ")">>,
       city |->
         <<"N", "e", "w", " ", "D", "e", "l", "h", "i">>],
      [key |-> "shankar_international_dolls_museum",
       name |->
         <<"S", "h", "a", "n", "k", "a", "r", "'", "s", " ", "I", "n",
           "t", "e", "r", "n", "a", "t", "i", "o", "n", "a", "l", " ",
           "D", "o", "l", "l", "s", " ", "M", "u", "s", "e", "u", "m">>,
       city |->
         <<"N", "e", "w", " ", "D", "e", "l", "h", "i">>],
      [key |-> "virasat_e_khalsa",
       name |->
         <<"V", "i", "r", "a", "s", "a", "t", "-", "e", "-", "K", "h",
           "a", "l", "s", "a">>,
       city |->
         <<"A", "n", "a", "n", "d", "p", "u", "r", " ", "S", "a", "h",
           "i", "b">>],
      [key |-> "napier_museum_thiruvananthapuram",
       name |->
         <<"N", "a", "p", "i", "e", "r", " ", "M", "u", "s", "e", "u",
           "m">>,
       city |->
         <<"T", "h", "i", "r", "u", "v", "a", "n", "a", "n", "t", "h",
           "a", "p", "u", "r", "a", "m">>],
      [key |-> "govt_museum_art_gallery_chandigarh",
       name |->
         <<"G", "o", "v", "e", "r", "n", "m", "e", "n", "t", " ", "M",
           "u", "s", "e", "u", "m", " ", "&", " ", "A", "r", "t", " ",
           "G", "a", "l", "l", "e", "r", "y">>,
       city |->
         <<"C", "h", "a", "n", "d", "i", "g", "a", "r", "h">>],
      [key |-> "dogra_art_museum_jammu",
       name |->
         <<"D", "o", "g", "r", "a", " ", "A", "r", "t", " ", "M", "u",
           "s", "e", "u", "m">>,
       city |->
         <<"J", "a", "m", "m", "u">>],
      [key |-> "visvesvaraya_industrial_and_technological_museum",
       name |->
         <<"V", "i", "s", "v", "e", "s", "v", "a", "r", "a", "y", "a",
           " ", "I", "n", "d", "u", "s", "t", "r", "i", "a", "l", " ",
           "a", "n", "d", " ", "T", "e", "c", "h", "n", "o", "l", "o",
           "g", "i", "c", "a", "l", " ", "M", "u", "s", "e", "u", "m">>,
       city |->
         <<"B", "e", "n", "g", "a", "l", "u", "r", "u">>]>>

\* The characters of the catalog and of the searches, in code point order.
CodePoints ==
    <<" ", "&", "'", "(", ")", "-",
      "A", "B", "C", "D", "E", "F", "G", "H", "I", "J", "K", "L", "M",
      "N", "O", "P", "Q", "R", "S", "T", "U", "V", "W", "X", "Y", "Z",
      "a", "b", "c", "d", "e", "f", "g", "h", "i", "j", "k", "l", "m",
      "n", "o", "p", "q", "r", "s", "t", "u", "v", "w", "x", "y", "z">>

Characters == {CodePoints[i] : i \in 1..Len(CodePoints)}

OrdTable == [c \in Characters |-> CHOOSE i \in 1..Len(CodePoints) : CodePoints[i] = c]

ord(c) == OrdTable[c]

\* str.lower(): a capital letter becomes the small one, 26 places on.
lower(s) ==
    [i \in 1..Len(s) |->
        IF ord("A") <= ord(s[i]) /\ ord(s[i]) <= ord("Z")
        THEN CodePoints[ord(s[i]) + 26] ELSE s[i]]

\* sub in s
Contains(sub, s) ==
    \E i \in 0..(Len(s) - Len(sub)) : SubSeq(s, i + 1, i + Len(sub)) = sub

\* a < b for strings: at the first place they differ, or a is a proper prefix
RECURSIVE LessFrom(_, _, _)
LessFrom(a, b, i) ==
    IF i > Len(a) THEN i <= Len(b)
    ELSE IF i > Len(b) THEN FALSE
    ELSE IF a[i] = b[i] THEN LessFrom(a, b, i + 1)
    ELSE ord(a[i]) < ord(b[i])

StrLess(a, b) == LessFrom(a, b, 1)

\* list.sort(key=lambda m: m['name']): stable, ascending by name.
SortByName(museums) ==
    LET RECURSIVE Sort(_, _)
        Sort(i, sorted) ==
            IF i > Len(museums) THEN sorted
            ELSE LET k == Cardinality({j \in 1..Len(sorted) :
                                          ~StrLess(museums[i].name, sorted[j].name)})
                 IN  Sort(i + 1, SubSeq(sorted, 1, k) \o <<museums[i]>>
                                 \o SubSeq(sorted, k + 1, Len(sorted)))
    IN  Sort(1, <<>>)

\* The filter that looks at the city only.
Matches_CityOnly(search_query, m) == Contains(search_query, lower(m.city))

\* search_query in m['name'].lower() or search_query in m['city'].lower()
Matches(search_query, m) ==
    Contains(search_query, lower(m.name)) \/ Contains(search_query, lower(m.city))

RECURSIVE Filter(_, _, _)
Filter(museums, search_query, i) ==
    IF i > Len(museums) THEN <<>>
    ELSE IF Matches(search_query, museums[i])
    THEN <<museums[i]>> \o Filter(museums, search_query, i + 1)
    ELSE Filter(museums, search_query, i + 1)

ListResponse(op, s, search, search_query, museums, is_quiz_selection) ==
    [op |-> op, who |-> s, status |-> "render:dashboard", flash |-> "",
     search |-> search, search_query |-> search_query,
     museums |-> [i \in 1..Len(museums) |-> museums[i].key],
     is_quiz_selection |-> is_quiz_selection]

\* dashboard, GET: search is request.args.get('search', '').
dashboard(s, search) ==
    LET search_query == lower(search)
        museums_to_display == IF search_query # <<>>
                              THEN Filter(MUSEUM_ITEMS, search_query, 1)
                              ELSE MUSEUM_ITEMS
    IN  /\ IF LoggedOut(s)
           THEN last' = LoginRedirect("dashboard", s)
           ELSE last' = ListResponse("dashboard", s, search, search_query,
                                     SortByName(museums_to_display), FALSE)
        /\ UNCHANGED <<users, reviews, wishlist_status, session, pending, now, signed,
                       toggles, conns>>

\* quiz_selection, GET: the whole catalog, sorted by name.
quiz_selection(s) ==
    /\ IF LoggedOut(s)
       THEN last' = LoginRedirect("quiz_selection", s)
       ELSE last' = ListResponse("quiz_selection", s, <<>>, <<>>,
                               SortByName(MUSEUM_ITEMS), TRUE)
    /\ UNCHANGED <<users, reviews, wishlist_status, session, pending, now, signed,
                   toggles, conns>>

(***************************************************************************)
(* Searches of the dashboard by one logged-in user.                        *)
(***************************************************************************)
Prefixes(s) == {SubSeq(s, 1, j) : j \in 1..Len(s)}

\* The parts of s of at most n characters.
Parts(s, n) ==
    {SubSeq(s, i, IF i + k - 1 <= Len(s) THEN i + k - 1 ELSE Len(s)) :
        i \in 1..Len(s), k \in 1..n}

\* The longest part of a city searched for that is not its beginning.
MaxPart == 2

Cities == {MUSEUM_ITEMS[i].city : i \in 1..Len(MUSEUM_ITEMS)}

\* Nothing, every beginning of every city as the catalog spells it, the
\* short parts of every city in small letters, and some words that are in
\* names or in nothing.
SearchQueries ==
    {<<>>}
    \cup UNION {Prefixes(c) : c \in Cities}
    \cup UNION {Parts(lower(c), MaxPart) : c \in Cities}
    \cup {<<"m", "u", "s", "e", "u", "m">>, <<"M", "U", "S", "E", "U", "M">>,
          <<"D", "E", "L", "H", "I">>, <<"A", "r", "t">>, <<"z", "z">>, <<"(">>}

NextSearch ==
    \/ signup("w1", AliceSignup, "salt1")
    \/ signup_create_user("w1")
    \/ \E s \in OneSession : login(s, AliceLogin)
    \/ \E s \in OneSession : logout(s)
    \/ \E s \in OneSession, search \in SearchQueries : dashboard(s, search)
    \/ \E s \in OneSession : quiz_selection(s)

SpecSearch == Init /\ [][NextSearch]_vars

Searched == last.op = "dashboard" /\ last.status = "render:dashboard"

Museums == {MUSEUM_ITEMS[i] : i \in 1..Len(MUSEUM_ITEMS)}

MuseumOf(key) == CHOOSE m \in Museums : m.key = key

\* Two characters are the same letter in either case, or the same character.
SameLetter(a, b) ==
    \/ a = b
    \/ /\ ord("A") <= ord(a) /\ ord(a) <= ord("Z") /\ ord(b) = ord(a) + 26
    \/ /\ ord("A") <= ord(b) /\ ord(b) <= ord("Z") /\ ord(a) = ord(b) + 26

\* q occurs in text, case-insensitively.
OccursIn(q, text) ==
    \E i \in 0..(Len(text) - Len(q)) : \A j \in 1..Len(q) : SameLetter(q[j], text[i + j])

\* The museums with the search string in the city, and in the name.
InCity(q) == {n \in Museums : OccursIn(q, n.city)}
InName(q) == {n \in Museums : OccursIn(q, n.name)}

\* The listed museums are all different and in alphabetical order of name.
Alphabetical(keys) ==
    LET names == [i \in 1..Len(keys) |-> lower(MuseumOf(keys[i]).name)]
    IN  \A i \in 1..(Len(keys) - 1) : StrLess(names[i], names[i + 1])

FullCatalog(keys) ==
    /\ {keys[i] : i \in 1..Len(keys)} = {m.key : m \in Museums}
    /\ Alphabetical(keys)

\* C14 as stated: a search string that occurs case-insensitively in the
\* city of exactly one museum lists exactly that museum, and an empty search
\* lists the full catalog in alphabetical order of name.
C14_SearchByCity ==
    Searched
        => LET hits == InCity(last.search)
           IN  /\ (last.search # <<>> /\ Cardinality(hits) = 1)
                     => last.museums = <<(CHOOSE m \in hits : TRUE).key>>
               /\ last.search = <<>> => FullCatalog(last.museums)

\* C14, amended: a search lists exactly the museums whose name or city
\* holds the search string case-insensitively, in alphabetical order of
\* name; hence a string that is in the city of exactly one museum and in the
\* name of no other museum lists exactly that museum; an empty search lists
\* the full catalog in alphabetical order of name.
C14_SearchByNameOrCity ==
    Searched
        => LET hits == InCity(last.search)
               named == InName(last.search)
           IN  /\ Alphabetical(last.museums)
               /\ {last.museums[i] : i \in 1..Len(last.museums)}
                     = {m.key : m \in hits \cup named}
               /\ (last.search # <<>> /\ Cardinality(hits) = 1 /\ named \subseteq hits)
                     => last.museums = <<(CHOOSE m \in hits : TRUE).key>>
               /\ last.search = <<>> => FullCatalog(last.museums)

\* A search in capitals and small letters that is in one city and in no
\* name, answered with the one museum of that city.
C14_Witness ==
    /\ Searched
    /\ last.search # <<>>
    /\ last.search # lower(last.search)
    /\ Len(last.museums) = 1
    /\ InCity(last.search) = {MuseumOf(last.museums[1])}
    /\ InName(last.search) = {}

(***************************************************************************)
(* Every protected route, requested by one browser that logs in and out.   *)
(***************************************************************************)
GuardKeys == {"csmvs_mumbai", "no_such_museum"}

GuardSearches == {<<>>, <<"p", "a", "t", "n", "a">>}

GuardForms ==
    { [toggle_visited |-> TRUE, review_text |-> None, rating |-> None],
      [toggle_visited |-> FALSE, review_text |-> Some("Great"), rating |-> Some(<<"5">>)] }

\* The generator answers as asked, or has no client.
GuardGenOutcomes ==
    { [kind |-> "client_error"],
      [kind |-> "json", data |-> [quiz_title |-> "Generated Quiz",
                                  questions |-> GoodQuestions]] }

\* An empty form and one with the answer of every question.
GuardQuizForms ==
    { [i \in 1..5 |-> None], [i \in 1..5 |-> Some(GoodQuestions[i].answer)] }

NextGuard ==
    \/ signup("w1", AliceSignup, "salt1")
    \/ signup_create_user("w1")
    \/ \E s \in OneSession : login(s, AliceLogin)
    \/ \E s \in OneSession : logout(s)
    \/ \E s \in OneSession, search \in GuardSearches : dashboard(s, search)
    \/ \E s \in OneSession : quiz_selection(s)
    \/ \E s \in OneSession, k \in GuardKeys, outcome \in SummaryOutcomes :
          museum_profile_GET(s, k, outcome)
    \/ \E s \in OneSession, k \in GuardKeys, form \in GuardForms :
          museum_profile_POST(s, "w1", k, form)
    \/ toggle_wishlist_write("w1")
    \/ \E s \in OneSession, k \in GuardKeys, g \in GuardGenOutcomes : quiz_GET(s, k, g)
    \/ \E s \in OneSession, k \in GuardKeys, form \in GuardQuizForms : quiz_POST(s, k, form)

SpecGuard == Init /\ [][NextGuard]_vars

Protected ==
    {"dashboard", "quiz_selection", "museum_GET", "museum_POST", "quiz_GET", "quiz_POST"}

\* The step is the first step of a request to a protected route: no
\* toggle that was waiting to write is finished by it.
Requested(ops) ==
    /\ last'.op \in ops
    /\ \A w \in Workers : pending[w].pc = "toggle_write" => pending'[w] = pending[w]

\* The step called neither the quiz generator nor the summary service.
NoGeneratorCall ==
    /\ "gen" \notin DOMAIN last'
    /\ "ai_summary" \notin DOMAIN last'

\* C12: a request to a protected route from a session without a logged-in
\* user is redirected to login, and nothing of the handler body happens: no
\* table, session, pending handler or connection changes and no generator
\* is called.
C12_LoginRequired ==
    [][(Requested(Protected) /\ session[last'.who].user = None)
          => /\ last' = LoginRedirect(last'.op, last'.who)
             /\ UNCHANGED <<users, reviews, wishlist_status, session, pending, conns>>
             /\ NoGeneratorCall]_vars

\* A scoring request sent after logout, while the session still holds a
\* quiz and the tables hold a review and a wishlist row.
C12_Witness ==
    /\ last = LoginRedirect("quiz_POST", "s1")
    /\ session["s1"].user = None
    /\ session["s1"].current_quiz # None
    /\ Len(reviews) = 1
    /\ wishlist_status # {}

(***************************************************************************)
(* Logout, under SpecQuiz.                                                 *)
(***************************************************************************)
\* C13: after logout the session holds neither a username nor a quiz (so
\* that a quiz generated before the logout cannot be scored after the next
\* login).
C13_LogoutDestroysSession ==
    last.op = "logout"
        => /\ session[last.who].user = None
           /\ session[last.who].current_quiz = None

(***************************************************************************)
(* The quiz slot of a session, under SpecQuiz.                             *)
(***************************************************************************)
\* The step answered a request of a logged-in user to a quiz route of a
\* catalog museum.
QuizRequested(op) ==
    /\ last'.op = op
    /\ session[last'.who].user # None
    /\ last'.museum_key \in CatalogKeys

\* A generation request that finds a quiz in the slot leaves there the
\* quiz made by that request.
LatestReplaces ==
    [][(QuizRequested("quiz_GET") /\ session[last'.who].current_quiz # None)
          => /\ session'[last'.who].current_quiz # None
             /\ "questions" \in DOMAIN last'
             /\ session'[last'.who].current_quiz[1].museum_key = last'.museum_key
             /\ session'[last'.who].current_quiz[1].questions = last'.questions]_vars

\* A scoring pass that completes empties the slot, and a scoring request
\* that finds the slot empty is answered with the mismatch redirect.
ScoredAtMostOnce ==
    [][QuizRequested("quiz_POST")
          => /\ last'.status = "render:results"
                   => /\ session[last'.who].current_quiz # None
                      /\ session'[last'.who].current_quiz = None
             /\ session[last'.who].current_quiz = None
                   => /\ Mismatched'
                      /\ session' = session]_vars

\* C15: the slot of a session goes Idle -> Generated -> Scored -> Idle: a
\* generation request replaces the stored quiz by the one it made, so that
\* only the latest can be scored, and after a completed scoring pass a
\* further scoring request without a generation in between finds no quiz
\* and gets the mismatch redirect.
C15_QuizSlotLifeCycle == LatestReplaces /\ ScoredAtMostOnce

(***************************************************************************)
(* Toggles of two users on two museums by two workers: a toggle of one     *)
(* worker may run between the read and the write of the other's.           *)
(***************************************************************************)
RaceKeys == {"csmvs_mumbai", "bihar_museum_patna"}

RaceForms == { [toggle_visited |-> TRUE, review_text |-> None, rating |-> None] }

NextRace ==
    \/ \E form \in {AliceSignup, BobSignup} : signup("w1", form, "salt1")
    \/ signup_create_user("w1")
    \/ \E s \in OneSession, form \in {AliceLogin, BobLogin} : login(s, form)
    \/ \E s \in OneSession, w \in Workers, k \in RaceKeys, form \in RaceForms :
          museum_profile_POST(s, w, k, form)
    \/ \E w \in Workers : toggle_wishlist_write(w)

SpecRace == Init /\ [][NextRace]_vars

\* The two calls completed last toggled the same pair and read the same
\* flag: the one that wrote last had read before the other wrote (had it
\* read later it would have read what the other wrote, as no third call
\* wrote in between).
Raced ==
    /\ TwoConsecutive
    /\ toggles[1].current_status = toggles[2].current_status

SamePair(r, user_id, museum_key) == r.user_id = user_id /\ r.museum_key = museum_key

\* At most one row for each (user, museum) pair, with a flag of 0 or 1.
WishlistWellFormed ==
    \A r1, r2 \in wishlist_status :
        /\ r1.is_visited \in {0, 1}
        /\ SamePair(r1, r2.user_id, r2.museum_key) => r1 = r2

\* A step that changes the table is the write of a pending toggle and
\* changes no row of another pair.
OnlyOwnPair ==
    wishlist_status' # wishlist_status
        => \E w \in Workers :
              /\ pending[w].pc = "toggle_write"
              /\ pending'[w] = Idle
              /\ \A r \in wishlist_status \cup wishlist_status' :
                    ~SamePair(r, pending[w].user_id[1], pending[w].museum_key)
                        => (r \in wishlist_status /\ r \in wishlist_status')

\* C16: two toggles of one pair that both read before either writes return
\* the same new value and the flag ends flipped once; in every interleaving
\* the table has at most one row for each pair with a flag of 0 or 1, and a
\* toggle changes no row of another pair.
C16_LastWriterWins ==
    /\ [](Raced
            => /\ toggles[1].returned = toggles[2].returned
               /\ toggles[2].returned = 1 - toggles[2].current_status
               /\ get_wishlist_status(wishlist_status, Some(toggles[2].user_id),
                                      toggles[2].museum_key) = toggles[2].returned)
    /\ []WishlistWellFormed
    /\ [][OnlyOwnPair]_vars

\* Two toggles that both read 1 and both returned 0, with the flag at 0 and
\* the row of another pair in the table.
C16_Witness ==
    /\ Raced
    /\ toggles[1].current_status = 1
    /\ toggles[2].returned = 0
    /\ [user_id |-> toggles[2].user_id, museum_key |-> toggles[2].museum_key,
        is_visited |-> 0] \in wishlist_status
    /\ Cardinality(wishlist_status) >= 2

(***************************************************************************)
(* Unknown museum keys, under SpecGuard.                                   *)
(***************************************************************************)
MuseumRoutes == {"museum_GET", "museum_POST"}

\* The answer to a request for a museum that is not in the catalog: the
\* flash and the redirect to the dashboard, resp. to the quiz selection.
NotFound(r) ==
    IF r.op \in MuseumRoutes
    THEN r.status = "redirect:dashboard" /\ r.flash = "Museum profile not found."
    ELSE r.status = "redirect:quiz_selection" /\ r.flash = "Museum not found."

\* The step answers with NotFound and does nothing else.
OnlyNotFound ==
    /\ NotFound(last')
    /\ UNCHANGED <<users, reviews, wishlist_status, session, pending, conns>>
    /\ NoGeneratorCall

\* The step is a request of session s to a museum or quiz route, GET or
\* POST, with a key that is not in the catalog.
UnknownKeyRequest(s) ==
    \E k \in GuardKeys \ CatalogKeys :
        \/ \E outcome \in SummaryOutcomes : museum_profile_GET(s, k, outcome)
        \/ \E w \in Workers, form \in GuardForms : museum_profile_POST(s, w, k, form)
        \/ \E g \in GuardGenOutcomes : quiz_GET(s, k, g)
        \/ \E form \in GuardQuizForms : quiz_POST(s, k, form)

StoredQuizzesTagged ==
    \A s \in Sessions :
        session[s].current_quiz # None
            => session[s].current_quiz[1].museum_key \in CatalogKeys

\* C17 as stated: every request to a museum or quiz route with a key that
\* is not in the catalog is answered with NotFound and nothing else; every
\* stored quiz is tagged with a catalog key.
C17_UnknownKeyNotFound ==
    /\ [][\A s \in OneSession : UnknownKeyRequest(s) => OnlyNotFound]_vars
    /\ []StoredQuizzesTagged

\* C17, amended: every request of a logged-in user to a museum or quiz
\* route with a key that is not in the catalog is answered with NotFound
\* and nothing else; every stored quiz is tagged with a catalog key.
C17_UnknownKeyNotFoundWhenLoggedIn ==
    /\ [][\A s \in OneSession :
             (session[s].user # None /\ UnknownKeyRequest(s)) => OnlyNotFound]_vars
    /\ []StoredQuizzesTagged

\* A scoring request for an unknown key while the session holds a quiz and
\* the tables hold a review and a wishlist row.
C17_Witness ==
    /\ last.op = "quiz_POST"
    /\ last.status = "redirect:quiz_selection"
    /\ last.museum_key \notin CatalogKeys
    /\ NotFound(last)
    /\ session[last.who].user # None
    /\ session[last.who].current_quiz # None
    /\ Len(reviews) = 1
    /\ wishlist_status # {}

(***************************************************************************)
(* Every store operation, called by the handlers of two workers: signups   *)
(* that race, logins of two users, toggles, reviews and museum pages.      *)
(***************************************************************************)
StoreKeys == {"csmvs_mumbai"}

NextStore ==
    \/ \E w \in Workers, form \in {AliceSignup, BobSignup} : signup(w, form, "salt1")
    \/ \E w \in Workers : signup_create_user(w)
    \/ \E s \in OneSession, form \in {AliceLogin, BobLogin} : login(s, form)
    \/ \E s \in OneSession : logout(s)
    \/ \E s \in OneSession, w \in Workers, k \in StoreKeys, form \in GuardForms :
          museum_profile_POST(s, w, k, form)
    \/ \E w \in Workers : toggle_wishlist_write(w)
    \/ \E s \in OneSession, k \in StoreKeys : museum_profile_GET(s, k, "text")

SpecStore == Init /\ [][NextStore]_vars

\* The workers inside toggle_wishlist_status, between its read and its
\* write: the store operations in progress between two steps.
InProgress == {w \in Workers : pending[w].pc = "toggle_write"}

\* C18: every store operation has released every connection it opened when
\* it is left, by return or by exception: the open connections are those
\* of the toggles in progress, one each, and none when no store operation
\* is in progress.
C18_ConnectionsReleased ==
    /\ conns = Cardinality(InProgress)
    /\ InProgress = {} => conns = 0

\* create_user has raised IntegrityError, a toggle has written and reviews
\* have been added and listed, and no connection is open.
C18_Witness ==
    /\ last.op = "signup"
    /\ last.raised = "sqlite3.IntegrityError"
    /\ toggles # <<>>
    /\ reviews # <<>>
    /\ InProgress = {}
    /\ conns = 0

(***************************************************************************)
(* The identity of the session, under SpecStore.                           *)
(***************************************************************************)
\* The ids of the rows of users with that username.
IdsOf(username) == {users[i].id : i \in {j \in 1..Len(users) : users[j].username = username}}

SessionsNameUsers ==
    \A s \in Sessions : session[s].user # None => IdsOf(session[s].user[1]) # {}

\* No row of users is changed or removed.
UsersKept == Len(users') >= Len(users) /\ SubSeq(users', 1, Len(users)) = users

\* The id a protected handler resolved is not null: no toggle waits with a
\* null id and no museum request failed.
ResolvedIdNotNull ==
    /\ \A w \in Workers : pending[w].pc = "toggle_write" => pending[w].user_id # None
    /\ last.op \in {"museum_GET", "museum_POST"} => last.status # "error:500"

\* A review appended by the step carries the id of the user of the session
\* that sent the request.
ReviewByRequester ==
    reviews' # reviews
        => /\ Len(reviews') = Len(reviews) + 1
           /\ last'.op = "museum_POST"
           /\ session[last'.who].user # None
           /\ reviews'[Len(reviews')].user_id \in IdsOf(session[last'.who].user[1])

\* A wishlist row written by the step carries the id of the user who was
\* logged in when the request of the writing worker began.
WishlistByRequester ==
    \A r \in wishlist_status' \ wishlist_status :
        \E w \in Workers :
            /\ pending[w].pc = "toggle_write"
            /\ pending'[w] = Idle
            /\ r.user_id \in IdsOf(pending[w].user)

\* C19: the username in a session names a row of users in every reachable
\* state and users are never deleted, so the id a protected handler
\* resolves is never null, and every review and wishlist row written
\* carries the id of the user logged in for that request.
C19_SessionNamesUser ==
    /\ []SessionsNameUsers
    /\ [][UsersKept]_vars
    /\ []ResolvedIdNotNull
    /\ [][ReviewByRequester /\ WishlistByRequester]_vars

\* The second user has posted a review and toggled a museum: both rows
\* carry the id 2.
C19_Witness ==
    /\ Len(users) = 2
    /\ session["s1"].user = Some(users[2].username)
    /\ \E i \in 1..Len(reviews) : reviews[i].user_id = 2
    /\ \E r \in wishlist_status : r.user_id = 2
    /\ \E r \in wishlist_status : r.user_id = 1

(***************************************************************************)
(* Signups and logins, good and bad, in a browser that may be logged in    *)
(* and may hold a quiz.                                                    *)
(***************************************************************************)
\* Two good forms, and forms with an empty field, two passwords that
\* differ and a short password.
FrameSignupForms ==
    { AliceSignup, BobSignup,
      [AliceSignup EXCEPT !.email = <<" ">>],
      [AliceSignup EXCEPT !.confirm_password = "secret2"],
      [username |-> Bob, email |-> <<"e">>, password |-> "short",
       confirm_password |-> "short"] }

\* The right passwords, the password of the other user, none, and no
\* username.
FrameLoginForms ==
    { AliceLogin, BobLogin,
      [AliceLogin EXCEPT !.password = "secret2"],
      [AliceLogin EXCEPT !.password = ""],
      [username |-> <<>>, password |-> "secret1"],
      [username |-> Bob, password |-> "secret1"] }

FrameKeys == {"csmvs_mumbai"}

NextFrame ==
    \/ \E w \in Workers, form \in FrameSignupForms : signup(w, form, "salt1")
    \/ \E w \in Workers : signup_create_user(w)
    \/ \E s \in OneSession, form \in FrameLoginForms : login(s, form)
    \/ \E s \in OneSession : logout(s)
    \/ \E s \in OneSession, k \in FrameKeys, g \in GuardGenOutcomes : quiz_GET(s, k, g)

SpecFrame == Init /\ [][NextFrame]_vars

\* The form names an account a signup created, with its password.
Authenticates(form) ==
    \E a \in signed : a.username = Strip(form.username) /\ a.password = form.password

\* C20: a login that does not authenticate and every step of a signup
\* leave the session as it is (the identity, if any, and the stored quiz);
\* a signup that is rejected leaves the users table as it is.
C20_FailedAuthKeepsSession ==
    /\ [][(last'.op = "login" /\ ~Authenticates(last'.form))
             => /\ last'.status = "render:login"
                /\ session' = session]_vars
    /\ [][last'.op = "signup"
             => /\ session' = session
                /\ last'.status = "render:signup" => users' = users]_vars

\* A login with a wrong password, refused in a browser that is logged in
\* and holds a quiz, while a signup is between its checks and its insert.
C20_Witness ==
    /\ last.op = "login"
    /\ last.status = "render:login"
    /\ last.flash = "Invalid username or password"
    /\ session["s1"].user = Some(Alice)
    /\ session["s1"].current_quiz # None
    /\ \E w \in Workers : pending[w].pc = "create_user"

====
